---- MODULE Spec2Model ----
(***************************************************************************)
(* Model of the document composition engine of pdf-editor-react:           *)
(* the usePdfState hook (source list, merge effect, page order,            *)
(* annotations, export), the PageThumbnails drag handler, the PdfViewer    *)
(* inline editor and coordinate transform, PDFService.mergePdfs, the       *)
(* annotation compositor, and the useEditorStore file list and page order. *)
(*                                                                         *)
(* A document is a sequence of pages; a page is a record                   *)
(*   [content |-> <<source id, page number within source>>,                *)
(*    stamps  |-> sequence of annotations drawn on it].                    *)
(***************************************************************************)
EXTENDS Integers, Sequences, FiniteSets, TLC

\* ---------------------------------------------------------------- bounds
MaxLoads == 2       \* files loaded during a session (caps the id counter)
MaxPageCount == 2   \* pages of one uploaded file
MaxPages == 3       \* total pages of the source list
MaxBatch == 2       \* files of one loadFromFiles call
MaxAnnotations == 2 \* annotation ids in use at a time
MaxMergeFiles == 3  \* files of one direct mergePdfs call
MaxOrderLen == 4    \* length of the array of one direct arrayMove call
MaxElem == 2        \* largest element of such an array
MaxUploads == 2     \* files uploaded to the editor store (caps its id counter)
MaxPx == 3          \* largest pixel coordinate of a click
MaxScale == 3       \* scales are the fractions n/d with n, d in 1..MaxScale
MaxDrawn == 2       \* annotations of one direct addTextAnnotations call
MaxFiles == 3       \* files of the list given to a direct reorderFiles call

Null == "null"       \* an absent string (error === null)
None == <<>>         \* an absent optional value (null); Some(v) is a present one
Some(v) == <<v>>
NoId == 0            \* activeEditor.id undefined
Texts == {"", "a"}

VARIABLES
  loadedPdfs,    \* useState<LoadedPdf[]>: sequence of [id, pageCount]
  nextId,        \* ids handed out so far (ids are unique per load)
  inflight,      \* merge effect runs awaiting mergePdfs: sequence of source lists
  mergedPdf,     \* useState<Uint8Array | null>: None or Some(document)
  docPending,    \* the viewer's <Document> is loading mergedPdf
  numPages,      \* useState(0)
  pageNumber,    \* useState(1)
  pageOrder,     \* useState<number[]>
  annotations,   \* useState<TextAnnotation[]>
  activeEditor,  \* PdfViewer useState: None or Some([id, pageNumber])
  exp,           \* the export in progress / its outcome
  error,         \* EditorPage useState<string | null>
  downloaded,    \* what downloadBytesAsFile was called with by this export
  call,          \* a direct call of a service function: [op, args, done, result]
  store,         \* useEditorStore state: uploadedFiles, selectedFiles, pageOrder, ...
  uploads        \* the store's async calls in progress: [count, runs, merging]

sessionVars == <<loadedPdfs, nextId, inflight, mergedPdf, docPending, numPages,
                 pageNumber, pageOrder, annotations, activeEditor>>
storeVars == <<store, uploads>>
exportVars == <<exp, error, downloaded, call, storeVars>>
vars == <<loadedPdfs, nextId, inflight, mergedPdf, docPending, numPages,
          pageNumber, pageOrder, annotations, activeEditor,
          exp, error, downloaded, call, store, uploads>>

\* ------------------------------------------------------------- helpers
Range(s) == {s[i] : i \in 1..Len(s)}

RECURSIVE SumPages(_)
SumPages(list) ==
  IF list = <<>> THEN 0 ELSE Head(list).pageCount + SumPages(Tail(list))

\* bytes of a LoadedPdf: its pages in their original order
Bytes(pdf) == [k \in 1..pdf.pageCount |-> [content |-> <<pdf.id, k>>, stamps |-> <<>>]]

\* Array.from({ length: pages }, (_, i) => i)
IdentityOrder(pages) == [i \in 1..pages |-> i - 1]

\* Array.prototype.indexOf: 0-based index of the first match, -1 when absent
IndexOf(s, v) ==
  IF \E i \in 1..Len(s) : s[i] = v
  THEN (CHOOSE i \in 1..Len(s) : s[i] = v /\ \A j \in 1..(i - 1) : s[j] # v) - 1
  ELSE -1

\* Array.prototype.findIndex(a => a.id === id)
FindIndexById(list, id) ==
  IF \E i \in 1..Len(list) : list[i].id = id
  THEN (CHOOSE i \in 1..Len(list) : list[i].id = id /\ \A j \in 1..(i - 1) : list[j].id # id) - 1
  ELSE -1

RemoveAt(s, i) == SubSeq(s, 1, i - 1) \o SubSeq(s, i + 1, Len(s))
InsertAt(s, i, v) == SubSeq(s, 1, i - 1) \o <<v>> \o SubSeq(s, i, Len(s))

\* ------------------------------------------------- PDFService.mergePdfs
\* files: sequence of documents; bad: indices of the files whose load or
\* page copy throws.  Result: [ok, pages, failed].
RECURSIVE MergeLoop(_, _, _, _)
MergeLoop(files, i, acc, bad) ==
  IF i > Len(files) THEN [ok |-> TRUE, pages |-> acc, failed |-> 0]
  ELSE IF i \in bad THEN [ok |-> FALSE, pages |-> <<>>, failed |-> i]
  ELSE MergeLoop(files, i + 1, acc \o files[i], bad)

\* mergePdfs skipping the first file (loop started at 1 instead of 0)
mergePdfsFromSecond(files, bad) == MergeLoop(files, 2, <<>>, bad)

\* mergePdfs returning the document built from the files before the failure
mergePdfsPartial(files, bad) ==
  LET r == MergeLoop(files, 1, <<>>, bad) IN
  IF r.ok THEN r ELSE MergeLoop(SubSeq(files, 1, r.failed - 1), 1, <<>>, {})

mergePdfs(files, bad) == MergeLoop(files, 1, <<>>, bad)

\* loadedPdfs.map(pdf => pdf.bytes)
PdfsToMerge(list) == [i \in 1..Len(list) |-> Bytes(list[i])]

\* exp: pc is the stage being awaited; src, order, anns are the values that
\* exportEdited closed over; bytes is its local variable; log lists the
\* stages entered; threw names the stage whose call threw
IdleExport ==
  [pc |-> "idle", src |-> <<>>, order |-> <<>>, anns |-> <<>>, bytes |-> <<>>,
   log |-> <<>>, threw |-> "none"]

Entered(log, stage) == IF stage = "emit" THEN log ELSE Append(log, stage)

NoCall == [op |-> "none", args |-> <<>>, done |-> FALSE, result |-> <<>>]

\* An export reads the state captured when it starts and writes no session
\* state, so its steps commute with every session action; the model runs an
\* export to its end before the next session action.
Idle == exp.pc = "idle"

\* useEditorStore: initialState
initialState ==
  [uploadedFiles |-> <<>>, selectedFiles |-> <<>>, pageOrder |-> None,
   mergedPdf |-> None, currentPdf |-> None]

\* ------------------------------------------------------------- Init
InitSession ==
  /\ loadedPdfs = <<>>
  /\ nextId = 0
  /\ inflight = <<>>
  /\ mergedPdf = None
  /\ docPending = FALSE
  /\ numPages = 0
  /\ pageNumber = 1
  /\ pageOrder = <<>>
  /\ annotations = <<>>
  /\ activeEditor = None
  /\ exp = IdleExport
  /\ error = Null
  /\ downloaded = None
  /\ store = initialState
  /\ uploads = [count |-> 0, runs |-> <<>>, merging |-> None]

Init == InitSession /\ call = NoCall

\* ------------------------------------------------ usePdfState: sources
\* The effect on [loadedPdfs]: mergeAllPdfs() for the new source list.
\* The empty and the single-source branches finish synchronously; with two
\* or more sources the effect awaits mergePdfs and finishes in MergeSettle.
mergeAllPdfs(list) ==
  IF Len(list) = 0 THEN
    /\ mergedPdf' = None
    /\ numPages' = 0
    /\ docPending' = FALSE            \* EditorPage unmounts the viewer
    /\ activeEditor' = None
    /\ UNCHANGED <<inflight, pageNumber, pageOrder, annotations>>
  ELSE IF Len(list) = 1 THEN
    /\ mergedPdf' = Some(Bytes(list[1]))
    /\ pageNumber' = 1
    /\ annotations' = <<>>
    /\ pageOrder' = <<>>
    \* the viewer reloads only when pdfBytes is a different buffer
    /\ docPending' = IF mergedPdf = Some(Bytes(list[1])) THEN docPending ELSE TRUE
    /\ UNCHANGED <<inflight, numPages, activeEditor>>
  ELSE
    /\ inflight' = Append(inflight, list)
    /\ UNCHANGED <<mergedPdf, numPages, docPending, activeEditor,
                   pageNumber, pageOrder, annotations>>

\* a file handed to loadFromFiles: its page count and whether it parses
Files == [pageCount : 1..MaxPageCount, ok : BOOLEAN]

Batches == UNION {[1..n -> Files] : n \in 0..MaxBatch}

\* loadPdfFile for every file of the batch, ids fresh
NewPdfs(files) ==
  [i \in 1..Len(files) |-> [id |-> nextId + i, pageCount |-> files[i].pageCount]]

loadFromFiles(files) ==
  /\ Idle
  /\ error' = Null                    \* onOpenFiles / onFilesSelected: setError(null)
  /\ IF Len(files) = 0 \/ \E i \in 1..Len(files) : ~files[i].ok
     THEN UNCHANGED sessionVars       \* early return / Promise.all rejects
     ELSE /\ nextId + Len(files) <= MaxLoads
          /\ SumPages(loadedPdfs) + SumPages(files) <= MaxPages
          /\ loadedPdfs' = loadedPdfs \o NewPdfs(files)
          /\ nextId' = nextId + Len(files)
          /\ mergeAllPdfs(loadedPdfs')
  /\ UNCHANGED <<exp, downloaded, call, storeVars>>

removePdf(id) ==
  /\ Idle
  /\ \E i \in 1..Len(loadedPdfs) : loadedPdfs[i].id = id
  /\ loadedPdfs' = SelectSeq(loadedPdfs, LAMBDA pdf : pdf.id # id)
  /\ mergeAllPdfs(loadedPdfs')
  /\ UNCHANGED <<nextId, exportVars>>

clearAllPdfs ==
  /\ Idle
  /\ Len(loadedPdfs) > 0              \* onClearAll is offered only then
  /\ loadedPdfs' = <<>>
  /\ mergeAllPdfs(loadedPdfs')
  /\ UNCHANGED <<nextId, exportVars>>

\* the awaited mergePdfs of an earlier effect run settles
MergeSettle(i, bad) ==
  /\ Idle
  /\ i \in 1..Len(inflight)
  /\ inflight' = RemoveAt(inflight, i)
  /\ LET r == mergePdfs(PdfsToMerge(inflight[i]), bad) IN
     IF r.ok
     THEN /\ mergedPdf' = Some(r.pages)
          /\ pageNumber' = 1
          /\ annotations' = <<>>
          /\ pageOrder' = <<>>
          /\ docPending' = TRUE       \* a new buffer: the viewer reloads
          /\ UNCHANGED <<numPages, activeEditor>>
     ELSE UNCHANGED <<mergedPdf, pageNumber, annotations, pageOrder,
                      docPending, numPages, activeEditor>>
  /\ UNCHANGED <<loadedPdfs, nextId, exportVars>>

\* onDocumentLoad(pages): the viewer's <Document onLoadSuccess>
OrderOnLoad(prev, pages) ==
  IF Len(prev) # pages THEN IdentityOrder(pages) ELSE prev

onDocumentLoad ==
  /\ Idle
  /\ docPending
  /\ mergedPdf # None
  /\ LET pages == Len(mergedPdf[1]) IN
       /\ numPages' = pages
       /\ pageOrder' = OrderOnLoad(pageOrder, pages)
  /\ docPending' = FALSE
  /\ UNCHANGED <<loadedPdfs, nextId, inflight, mergedPdf, pageNumber,
                 annotations, activeEditor, exportVars>>

\* ------------------------------------------------------ page navigation
\* PageThumbnails: onClick={() => onSelectPage(pageIndex + 1)}
selectThumbnail(pageIndex) ==
  /\ Idle
  /\ mergedPdf # None
  /\ pageIndex \in Range(pageOrder)
  /\ pageNumber' = pageIndex + 1
  /\ UNCHANGED <<loadedPdfs, nextId, inflight, mergedPdf, docPending, numPages,
                 pageOrder, annotations, activeEditor, exportVars>>

Max2(a, b) == IF a >= b THEN a ELSE b
Min2(a, b) == IF a <= b THEN a ELSE b

\* Toolbar: setPageNumber(Math.max(1, pageNumber-1))
prevPage ==
  /\ Idle
  /\ pageNumber' = Max2(1, pageNumber - 1)
  /\ UNCHANGED <<loadedPdfs, nextId, inflight, mergedPdf, docPending, numPages,
                 pageOrder, annotations, activeEditor, exportVars>>

\* Toolbar: setPageNumber(Math.min(numPages, pageNumber+1)), disabled={!numPages}
nextPage ==
  /\ Idle
  /\ numPages # 0
  /\ pageNumber' = Min2(numPages, pageNumber + 1)
  /\ UNCHANGED <<loadedPdfs, nextId, inflight, mergedPdf, docPending, numPages,
                 pageOrder, annotations, activeEditor, exportVars>>

\* ------------------------------------------------------ page reordering
\* a swap of the two positions
arraySwap(array, from, to) ==
  [array EXCEPT ![from + 1] = array[to + 1], ![to + 1] = array[from + 1]]

\* a move that inserts at the target's position counted before the removal
arrayMoveBeforeTarget(array, from, to) ==
  InsertAt(RemoveAt(array, from + 1), IF to > from THEN to ELSE to + 1, array[from + 1])

\* arrayMove of @dnd-kit/sortable:
\*   newArray.splice(to, 0, newArray.splice(from, 1)[0])     (0-based indices)
arrayMove(array, from, to) ==
  InsertAt(RemoveAt(array, from + 1), to + 1, array[from + 1])

NoTarget == -1      \* event.over === null

\* usePdfState.updateOrder
updateOrder(newOrder) ==
  /\ pageOrder' = newOrder
  /\ UNCHANGED <<loadedPdfs, nextId, inflight, mergedPdf, docPending, numPages,
                 pageNumber, annotations, activeEditor, exportVars>>

\* onDragEnd without the check that both ids were found: splice counts an
\* index of -1 from the end of the array
onDragEndUnchecked(active, over) ==
  /\ Idle
  /\ mergedPdf # None
  /\ IF over = NoTarget \/ active = over \/ pageOrder = <<>>
     THEN UNCHANGED vars
     ELSE LET oldIndex == IndexOf(pageOrder, active)
              newIndex == IndexOf(pageOrder, over)
              n == Len(pageOrder)
              from == IF oldIndex = -1 THEN n - 1 ELSE oldIndex
              to == IF newIndex = -1 THEN Max2(0, n - 2) ELSE newIndex
          IN updateOrder(arrayMove(pageOrder, from, to))

\* PageThumbnails.onDragEnd; active and over are thumbnail ids (page indices)
onDragEnd(active, over) ==
  /\ Idle
  /\ mergedPdf # None                 \* the sidebar is rendered
  /\ IF over = NoTarget \/ active = over
     THEN UNCHANGED vars
     ELSE LET oldIndex == IndexOf(pageOrder, active)
              newIndex == IndexOf(pageOrder, over)
          IN IF oldIndex = -1 \/ newIndex = -1
             THEN UNCHANGED vars
             ELSE updateOrder(arrayMove(pageOrder, oldIndex, newIndex))

\* ----------------------------------------------------------- annotations
\* addText without the lookup of an existing id
addTextAlwaysAppend(prev, annotation) == Append(prev, annotation)

\* usePdfState.addText: the updater given to setAnnotations
addText(prev, annotation) ==
  LET existingIndex == FindIndexById(prev, annotation.id) IN
  IF existingIndex >= 0
  THEN [prev EXCEPT ![existingIndex + 1] = annotation]
  ELSE Append(prev, annotation)

AnnIds(list) == {list[i].id : i \in 1..Len(list)}

\* `text-${Date.now()}`: an id no annotation of the list carries
FreshAnnId == CHOOSE id \in 1..MaxAnnotations :
                /\ id \notin AnnIds(annotations)
                /\ \A j \in 1..(id - 1) : j \in AnnIds(annotations)

\* PdfViewer.handlePageClick in text mode: open an editor for a new annotation
handlePageClick ==
  /\ Idle
  /\ mergedPdf # None
  /\ activeEditor' = Some([id |-> NoId, pageNumber |-> pageNumber])
  /\ UNCHANGED <<loadedPdfs, nextId, inflight, mergedPdf, docPending, numPages,
                 pageNumber, pageOrder, annotations, exportVars>>

\* PdfViewer.handleTextEdit / handleInlineEdit: open an existing annotation
handleTextEdit(k) ==
  /\ Idle
  /\ mergedPdf # None
  /\ k \in 1..Len(annotations)
  /\ activeEditor' = Some([id |-> annotations[k].id,
                           pageNumber |-> annotations[k].pageNumber])
  /\ UNCHANGED <<loadedPdfs, nextId, inflight, mergedPdf, docPending, numPages,
                 pageNumber, pageOrder, annotations, exportVars>>

\* a commit that also resets the page order, as the merge effect does
handleTextCommitResetting(text) ==
  /\ Idle
  /\ activeEditor # None
  /\ activeEditor[1].id # NoId \/ \E id \in 1..MaxAnnotations : id \notin AnnIds(annotations)
  /\ LET ed == activeEditor[1]
         annotation == [id |-> IF ed.id # NoId THEN ed.id ELSE FreshAnnId,
                        text |-> text,
                        pageNumber |-> ed.pageNumber,
                        formats |-> {}, hasPosition |-> TRUE, hasStyle |-> TRUE]
     IN annotations' = addText(annotations, annotation)
  /\ activeEditor' = None
  /\ pageOrder' = <<>>
  /\ UNCHANGED <<loadedPdfs, nextId, inflight, mergedPdf, docPending, numPages,
                 pageNumber, exportVars>>

\* PdfViewer.handleTextCommit -> onCommitText -> addText.  The annotation
\* always carries x, y and style; the session commits without formats (the
\* compositor is run on every set of formats in SpecAnnotate)
handleTextCommit(text) ==
  /\ Idle
  /\ activeEditor # None
  /\ activeEditor[1].id # NoId \/ \E id \in 1..MaxAnnotations : id \notin AnnIds(annotations)
  /\ LET ed == activeEditor[1]
         annotation == [id |-> IF ed.id # NoId THEN ed.id ELSE FreshAnnId,
                        text |-> text,
                        pageNumber |-> ed.pageNumber,
                        formats |-> {}, hasPosition |-> TRUE, hasStyle |-> TRUE]
     IN annotations' = addText(annotations, annotation)
  /\ activeEditor' = None
  /\ UNCHANGED <<loadedPdfs, nextId, inflight, mergedPdf, docPending, numPages,
                 pageNumber, pageOrder, exportVars>>

\* TextEditor onCancel
cancelEdit ==
  /\ Idle
  /\ activeEditor # None
  /\ activeEditor' = None
  /\ UNCHANGED <<loadedPdfs, nextId, inflight, mergedPdf, docPending, numPages,
                 pageNumber, pageOrder, annotations, exportVars>>

\* ----------------------------------------------------------------- export
\* a check of the first entry only
isSameFirstOnly(order) == Len(order) = 0 \/ order[1] = 0

\* pageOrder.every((v, i) => v === i)
isSame(order) == \A i \in 1..Len(order) : order[i] = i - 1

\* reorderPages(bytes, pageOrder): a new document holding, at position i,
\* a copy of page pageOrder[i] of the input
ReorderOk(bytes, order) == \A i \in 1..Len(order) : order[i] \in 0..(Len(bytes) - 1)
reorderPages(bytes, order) == [i \in 1..Len(order) |-> bytes[order[i] + 1]]

\* the font variant drawn for a set of formats, without the combined variant
FontVariantNoCombined(formats) ==
  IF "bold" \in formats THEN "bold"
  ELSE IF "italic" \in formats THEN "italic"
  ELSE "regular"

\* the embedded font an annotation's text is drawn in
FontVariant(formats) ==
  IF "bold" \in formats /\ "italic" \in formats THEN "bold-italic"
  ELSE IF "bold" \in formats THEN "bold"
  ELSE IF "italic" \in formats THEN "italic"
  ELSE "regular"

\* what drawing an annotation leaves on its page
DrawText(ann) ==
  [id |-> ann.id, text |-> ann.text, font |-> FontVariant(ann.formats),
   underline |-> "underline" \in ann.formats]

\* addTextAnnotations(bytes, annotations): every annotation, in list order,
\* is drawn on its target page; one without position, text or style, or
\* whose page is out of range, is skipped
Stampable(bytes, ann) ==
  /\ ann.hasPosition
  /\ ann.hasStyle
  /\ ann.text # ""
  /\ ann.pageNumber - 1 \in 0..(Len(bytes) - 1)

RECURSIVE StampFrom(_, _, _)
StampFrom(bytes, anns, k) ==
  IF k > Len(anns) THEN bytes
  ELSE LET ann == anns[k]
           idx == ann.pageNumber
       IN IF Stampable(bytes, ann)
          THEN StampFrom([bytes EXCEPT ![idx].stamps = Append(@, DrawText(ann))],
                         anns, k + 1)
          ELSE StampFrom(bytes, anns, k + 1)

\* addTextAnnotations giving up at the first annotation it cannot draw
addTextAnnotationsStopAtBad(bytes, anns) ==
  LET stop == IF \E k \in 1..Len(anns) : ~Stampable(bytes, anns[k])
              THEN CHOOSE k \in 1..Len(anns) :
                     /\ ~Stampable(bytes, anns[k])
                     /\ \A j \in 1..(k - 1) : Stampable(bytes, anns[j])
              ELSE Len(anns) + 1
  IN StampFrom(bytes, SubSeq(anns, 1, stop - 1), 1)

addTextAnnotations(bytes, anns) == StampFrom(bytes, anns, 1)

canExport == mergedPdf # None /\ numPages > 0

\* exportEdited reordering whatever the order
NextStageAlwaysReorder(current, order, anns) ==
  IF current = "start" THEN "reorder"
  ELSE IF current = "reorder" /\ Len(anns) > 0 THEN "annotate"
  ELSE "emit"

\* exportEdited without its reorder step
NextStageNeverReorder(current, order, anns) ==
  IF current \in {"start", "reorder"} /\ Len(anns) > 0 THEN "annotate" ELSE "emit"

\* exportEdited with its two steps exchanged: annotations first
NextStageAnnotateFirst(current, order, anns) ==
  IF current = "start" /\ Len(anns) > 0 THEN "annotate"
  ELSE IF current \in {"start", "annotate"} /\ ~isSame(order) THEN "reorder"
  ELSE "emit"

\* The control flow of exportEdited: the stage it awaits next after the
\* stage `current` ("start": the call itself):
\*   if (!isSame) reorder;  if (annotations.length > 0) annotate;  return
NextStage(current, order, anns) ==
  IF current = "start" /\ ~isSame(order) THEN "reorder"
  ELSE IF current \in {"start", "reorder"} /\ Len(anns) > 0 THEN "annotate"
  ELSE "emit"

ExportFailed == "Failed to export PDF"

\* EditorPage.handleExport: setError(null), then exportEdited() up to its
\* first await
handleExport ==
  /\ Idle
  /\ canExport                        \* the button is disabled otherwise
  /\ error' = Null
  /\ downloaded' = None
  /\ exp' = [pc |-> NextStage("start", pageOrder, annotations),
             src |-> mergedPdf[1], order |-> pageOrder, anns |-> annotations,
             bytes |-> mergedPdf[1],
             log |-> Entered(<<>>, NextStage("start", pageOrder, annotations)),
             threw |-> "none"]
  /\ UNCHANGED <<sessionVars, call, storeVars>>

\* await reorderPages(bytes, pageOrder) settles; ok: the codec did not throw
exportReorder(ok) ==
  /\ exp.pc = "reorder"
  /\ IF ok /\ ReorderOk(exp.bytes, exp.order)
     THEN /\ exp' = [exp EXCEPT !.bytes = reorderPages(exp.bytes, exp.order),
                                !.log = Entered(@, NextStage("reorder", exp.order, exp.anns)),
                                !.pc = NextStage("reorder", exp.order, exp.anns)]
          /\ UNCHANGED error
     ELSE \* the rejection reaches handleExport's catch
          /\ exp' = [exp EXCEPT !.pc = "failed", !.bytes = <<>>, !.threw = "reorder"]
          /\ error' = ExportFailed
  /\ UNCHANGED <<sessionVars, call, storeVars, downloaded>>

\* exportEdited catching the annotation error and returning the bytes it has
exportAnnotateSwallow(ok) ==
  /\ exp.pc = "annotate"
  /\ IF ok
     THEN exp' = [exp EXCEPT !.bytes = addTextAnnotations(exp.bytes, exp.anns),
                             !.log = Entered(@, NextStage("annotate", exp.order, exp.anns)),
                             !.pc = NextStage("annotate", exp.order, exp.anns)]
     ELSE exp' = [exp EXCEPT !.pc = "emit", !.threw = "annotate"]
  /\ UNCHANGED <<sessionVars, call, storeVars, downloaded, error>>

\* await addTextAnnotations(bytes, annotations) settles
exportAnnotate(ok) ==
  /\ exp.pc = "annotate"
  /\ IF ok
     THEN /\ exp' = [exp EXCEPT !.bytes = addTextAnnotations(exp.bytes, exp.anns),
                                !.log = Entered(@, NextStage("annotate", exp.order, exp.anns)),
                                !.pc = NextStage("annotate", exp.order, exp.anns)]
          /\ UNCHANGED error
     ELSE /\ exp' = [exp EXCEPT !.pc = "failed", !.bytes = <<>>, !.threw = "annotate"]
          /\ error' = ExportFailed
  /\ UNCHANGED <<sessionVars, call, storeVars, downloaded>>

\* exportEdited returns bytes; handleExport: downloadBytesAsFile(out, 'edited.pdf')
exportEmit ==
  /\ exp.pc = "emit"
  /\ downloaded' = Some(exp.bytes)
  /\ exp' = [exp EXCEPT !.pc = "done"]
  /\ UNCHANGED <<sessionVars, call, storeVars, error>>

\* handleExport returns
exportReturn ==
  /\ exp.pc \in {"done", "failed"}
  /\ exp' = IdleExport
  /\ downloaded' = None
  /\ UNCHANGED <<sessionVars, call, storeVars, error>>

Next ==
  \/ \E files \in Batches : loadFromFiles(files)
  \/ \E id \in 1..MaxLoads : removePdf(id)
  \/ clearAllPdfs
  \/ \E i \in 1..Len(inflight) : \E bad \in SUBSET (1..Len(inflight[i])) : MergeSettle(i, bad)
  \/ onDocumentLoad
  \/ \E pageIndex \in 0..(MaxPages - 1) : selectThumbnail(pageIndex)
  \/ prevPage
  \/ nextPage
  \/ \E active \in 0..(MaxPages - 1), over \in -1..(MaxPages - 1) : onDragEnd(active, over)
  \/ handlePageClick
  \/ \E k \in 1..MaxAnnotations : handleTextEdit(k)
  \/ \E text \in Texts : handleTextCommit(text)
  \/ cancelEdit
  \/ handleExport
  \/ \E ok \in BOOLEAN : exportReorder(ok)
  \/ \E ok \in BOOLEAN : exportAnnotate(ok)
  \/ exportEmit
  \/ exportReturn

Spec == Init /\ [][Next]_vars

\* ------------------------------------------- direct calls of mergePdfs
\* a file of n pages, the index-th of the list
FileDoc(index, n) == [k \in 1..n |-> [content |-> <<index, k>>, stamps |-> <<>>]]

MergeArgs ==
  UNION {[files : {[i \in 1..n |-> FileDoc(i, counts[i])] : counts \in [1..n -> 1..MaxPageCount]},
          bad : SUBSET (1..n)] : n \in 0..MaxMergeFiles}

InitMerge ==
  /\ InitSession
  /\ call \in [op : {"mergePdfs"}, args : MergeArgs, done : {FALSE}, result : {<<>>}]

callMergePdfs ==
  /\ call.op = "mergePdfs"
  /\ ~call.done
  /\ call' = [call EXCEPT !.done = TRUE,
                          !.result = mergePdfs(call.args.files, call.args.bad)]
  /\ UNCHANGED <<sessionVars, exp, error, downloaded, storeVars>>

NextMerge == callMergePdfs

SpecMerge == InitMerge /\ [][NextMerge]_vars

\* ------------------------------------------- direct calls of arrayMove
\* every array of 1..MaxOrderLen elements with every pair of valid indices
MoveArgs ==
  UNION {[array : [1..n -> 0..MaxElem], from : 0..(n - 1), to : 0..(n - 1)] :
           n \in 1..MaxOrderLen}

InitReorder ==
  /\ InitSession
  /\ call \in [op : {"arrayMove"}, args : MoveArgs, done : {FALSE}, result : {<<>>}]

\* reorder(oldIndex, newIndex)
callArrayMove ==
  /\ call.op = "arrayMove"
  /\ ~call.done
  /\ call' = [call EXCEPT !.done = TRUE,
                          !.result = arrayMove(call.args.array, call.args.from, call.args.to)]
  /\ UNCHANGED <<sessionVars, exp, error, downloaded, storeVars>>

\* the inverse reorder(newIndex, oldIndex) applied to the result
callArrayMoveBack ==
  /\ call.op = "arrayMove"
  /\ call.done
  /\ call' = [call EXCEPT !.op = "arrayMoveBack",
                          !.result = arrayMove(call.result, call.args.to, call.args.from)]
  /\ UNCHANGED <<sessionVars, exp, error, downloaded, storeVars>>

NextReorder ==
  \/ callArrayMove
  \/ callArrayMoveBack

SpecReorder == InitReorder /\ [][NextReorder]_vars

\* ------------------------------------------------------- useEditorStore
\* A PDFFile of the store: [id, pageCount, status, order].
\* uploads.count: ids handed out so far; uploads.runs: the uploadPdfs calls
\* still processing, each [todo |-> the files not yet processed];
\* uploads.merging: the mergeSelectedFiles call awaiting its bytes, with the
\* values it read from the state when it started.

\* PDFPageService.extractAllPages(files).pages; bad: positions of the files
\* whose PDFDocument.load throws (caught, the file contributes no page)
RECURSIVE ExtractFrom(_, _, _, _)
ExtractFrom(files, i, pages, bad) ==
  IF i > Len(files) THEN pages
  ELSE IF files[i].status = "ready" /\ i \notin bad
  THEN ExtractFrom(files, i + 1,
         pages \o [k \in 1..files[i].pageCount |->
                     [fileId |-> files[i].id, pageNumber |-> k,
                      globalIndex |-> Len(pages) + k - 1]],
         bad)
  ELSE ExtractFrom(files, i + 1, pages, bad)

extractAllPages(files, bad) == ExtractFrom(files, 1, <<>>, bad)

\* generatePageOrder: the page order becomes the natural order of the
\* uploaded files, source order x intra-source order
PageOrderOf(files, bad) ==
  [pages |-> extractAllPages(files, bad),
   totalPages |-> Len(extractAllPages(files, bad))]

generatePageOrder(bad) ==
  store' = [store EXCEPT !.pageOrder = Some(PageOrderOf(store.uploadedFiles, bad))]

\* uploadedFiles.map(f => f.id === id ? {...f, ...} : f)
SetStatus(files, id, status, pageCount) ==
  [i \in 1..Len(files) |->
     IF files[i].id = id
     THEN [files[i] EXCEPT !.status = status, !.pageCount = pageCount]
     ELSE files[i]]

\* uploadPdfs(files) up to its first await: the new files are appended
store_uploadPdfs(files) ==
  /\ Len(files) > 0                   \* onDrop: acceptedFiles.length > 0
  /\ uploads.count + Len(files) <= MaxUploads
  /\ store' = [store EXCEPT !.uploadedFiles =
       @ \o [i \in 1..Len(files) |->
               [id |-> uploads.count + i, pageCount |-> 0, status |-> "uploading",
                order |-> Len(store.uploadedFiles) + i - 1]]]
  /\ uploads' = [uploads EXCEPT
       !.count = @ + Len(files),
       !.runs = Append(@, [todo |-> [i \in 1..Len(files) |->
                                      [id |-> uploads.count + i,
                                       pageCount |-> files[i].pageCount,
                                       ok |-> files[i].ok]]])]
  /\ UNCHANGED <<sessionVars, exp, error, downloaded, call>>

\* uploadPdfs: the next file of run r is parsed: ready with its page count,
\* or error
uploadProcess(r) ==
  /\ r \in 1..Len(uploads.runs)
  /\ uploads.runs[r].todo # <<>>
  /\ LET f == Head(uploads.runs[r].todo) IN
       store' = [store EXCEPT !.uploadedFiles =
                   IF f.ok THEN SetStatus(@, f.id, "ready", f.pageCount)
                   ELSE SetStatus(@, f.id, "error", 0)]
  /\ uploads' = [uploads EXCEPT !.runs[r].todo = Tail(@)]
  /\ UNCHANGED <<sessionVars, exp, error, downloaded, call>>

\* uploadPdfs: the setTimeout callback of run r
uploadTimer(r, bad) ==
  /\ r \in 1..Len(uploads.runs)
  /\ uploads.runs[r].todo = <<>>
  /\ IF \A i \in 1..Len(store.uploadedFiles) :
          store.uploadedFiles[i].status \in {"ready", "error"}
     THEN generatePageOrder(bad)
     ELSE UNCHANGED store
  /\ uploads' = [uploads EXCEPT !.runs = RemoveAt(@, r)]
  /\ UNCHANGED <<sessionVars, exp, error, downloaded, call>>

\* PageReorder: useEffect(() => { generatePageOrder() }, [generatePageOrder])
mountPageReorder(bad) ==
  /\ generatePageOrder(bad)
  /\ UNCHANGED <<sessionVars, exp, error, downloaded, call, uploads>>

\* removePdf leaving the selection as it is
store_removePdfKeepSelection(id) ==
  /\ \E i \in 1..Len(store.uploadedFiles) : store.uploadedFiles[i].id = id
  /\ store' = [store EXCEPT
       !.uploadedFiles = SelectSeq(@, LAMBDA f : f.id # id),
       !.currentPdf = IF @ = Some(id) THEN None ELSE @]
  /\ UNCHANGED <<sessionVars, exp, error, downloaded, call, uploads>>

\* useEditorStore.removePdf
store_removePdf(id) ==
  /\ \E i \in 1..Len(store.uploadedFiles) : store.uploadedFiles[i].id = id
  /\ store' = [store EXCEPT
       !.uploadedFiles = SelectSeq(@, LAMBDA f : f.id # id),
       !.selectedFiles = SelectSeq(@, LAMBDA x : x # id),
       !.currentPdf = IF @ = Some(id) THEN None ELSE @]
  /\ UNCHANGED <<sessionVars, exp, error, downloaded, call, uploads>>

\* useEditorStore.removeAllPdfs
store_removeAllPdfs ==
  /\ store' = [store EXCEPT !.uploadedFiles = <<>>, !.selectedFiles = <<>>,
                            !.mergedPdf = None, !.currentPdf = None]
  /\ UNCHANGED <<sessionVars, exp, error, downloaded, call, uploads>>

\* useEditorStore.toggleFileSelection: the selectedFiles it sets
Toggled(selected, id) ==
  IF id \in Range(selected) THEN SelectSeq(selected, LAMBDA x : x # id)
  ELSE Append(selected, id)

\* useEditorStore.toggleFileSelection
toggleFileSelection(id) ==
  /\ \E i \in 1..Len(store.uploadedFiles) : store.uploadedFiles[i].id = id
  /\ store' = [store EXCEPT !.selectedFiles = Toggled(@, id)]
  /\ UNCHANGED <<sessionVars, exp, error, downloaded, call, uploads>>

\* PDFUploader's select-all control, shown with the file list:
\*   selectedFiles.length === uploadedFiles.length ? deselectAllFiles : selectAllFiles
selectAllFiles ==
  /\ Len(store.uploadedFiles) > 0
  /\ Len(store.selectedFiles) # Len(store.uploadedFiles)
  /\ store' = [store EXCEPT !.selectedFiles =
       [i \in 1..Len(store.uploadedFiles) |-> store.uploadedFiles[i].id]]
  /\ UNCHANGED <<sessionVars, exp, error, downloaded, call, uploads>>

deselectAllFiles ==
  /\ Len(store.uploadedFiles) > 0
  /\ Len(store.selectedFiles) = Len(store.uploadedFiles)
  /\ store' = [store EXCEPT !.selectedFiles = <<>>]
  /\ UNCHANGED <<sessionVars, exp, error, downloaded, call, uploads>>

\* PDFPageService.createReorderedPDF(pageOrder, pdfDocuments): one page is
\* copied per entry; an entry whose file is not among the documents is
\* passed over, and so is one whose copy throws (badCopy: their positions)
RECURSIVE CopyFrom(_, _, _, _, _)
CopyFrom(pages, i, out, docs, badCopy) ==
  IF i > Len(pages) THEN out
  ELSE LET src == {f \in docs : f.id = pages[i].fileId} IN
       IF src = {} THEN CopyFrom(pages, i + 1, out, docs, badCopy)
       ELSE LET sourcePdf == CHOOSE f \in src : TRUE IN
            IF i \in badCopy \/ pages[i].pageNumber \notin 1..sourcePdf.pageCount
            THEN CopyFrom(pages, i + 1, out, docs, badCopy)
            ELSE CopyFrom(pages, i + 1,
                          Append(out, Bytes(sourcePdf)[pages[i].pageNumber]),
                          docs, badCopy)

createReorderedPDF(pages, docs, badCopy) == CopyFrom(pages, 1, <<>>, docs, badCopy)

\* extractAllPages(files).pdfDocuments: the ready files that load
pdfDocuments(files, bad) ==
  {files[i] : i \in {j \in 1..Len(files) : files[j].status = "ready" /\ j \notin bad}}

UsesPageOrder == store.pageOrder # None /\ Len(store.pageOrder[1].pages) > 0

\* the filesToMerge of mergeSelectedFiles
FilesToMerge ==
  IF UsesPageOrder
  THEN SelectSeq(store.uploadedFiles, LAMBDA f :
         /\ \E i \in 1..Len(store.pageOrder[1].pages) : store.pageOrder[1].pages[i].fileId = f.id
         /\ f.status = "ready")
  ELSE SelectSeq(store.uploadedFiles, LAMBDA f :
         f.id \in Range(store.selectedFiles) /\ f.status = "ready")

\* PDFUploader.handleMergeSelected -> mergeSelectedFiles up to its first
\* await; the button shows with two or more files selected and is disabled
\* while a merge is running
mergeSelectedFiles ==
  /\ Len(store.selectedFiles) >= 2
  /\ uploads.merging = None
  /\ IF Len(FilesToMerge) < 1
     THEN UNCHANGED <<store, uploads>>      \* throws; a toast shows the message
     ELSE /\ store' = [store EXCEPT !.mergedPdf = Some(
                 [files |-> [i \in 1..Len(FilesToMerge) |-> FilesToMerge[i].id],
                  pageCount |-> IF UsesPageOrder /\ store.pageOrder[1].totalPages # 0
                                THEN store.pageOrder[1].totalPages
                                ELSE SumPages(FilesToMerge),
                  status |-> "merging", bytes |-> <<>>])]
          /\ uploads' = [uploads EXCEPT !.merging = Some(
                 [files |-> FilesToMerge,
                  pages |-> IF UsesPageOrder THEN Some(store.pageOrder[1].pages) ELSE None])]
  /\ UNCHANGED <<sessionVars, exp, error, downloaded, call>>

\* mergeSelectedFiles: the awaited bytes arrive or the merge service throws
\* (bad: the files that fail to load; badCopy: the entries whose copy throws)
mergeSelectedSettle(bad, badCopy) ==
  /\ uploads.merging # None
  /\ LET job == uploads.merging[1]
         r == IF job.pages # None
              THEN [ok |-> TRUE,
                    pages |-> createReorderedPDF(job.pages[1],
                                                 pdfDocuments(job.files, bad), badCopy)]
              ELSE mergePdfs(PdfsToMerge(job.files), bad \cap (1..Len(job.files)))
     IN store' = [store EXCEPT !.mergedPdf =
          IF @ = None THEN None
          ELSE IF r.ok THEN Some([@[1] EXCEPT !.bytes = r.pages, !.status = "ready"])
          ELSE Some([@[1] EXCEPT !.status = "error"])]
  /\ uploads' = [uploads EXCEPT !.merging = None]
  /\ UNCHANGED <<sessionVars, exp, error, downloaded, call>>

NextStore ==
  \/ \E files \in Batches : store_uploadPdfs(files)
  \/ \E r \in 1..MaxUploads : uploadProcess(r)
  \/ \E r \in 1..MaxUploads : \E bad \in SUBSET (1..MaxUploads) : uploadTimer(r, bad)
  \/ \E bad \in SUBSET (1..MaxUploads) : mountPageReorder(bad)
  \/ \E id \in 1..MaxUploads : store_removePdf(id)
  \/ store_removeAllPdfs
  \/ \E id \in 1..MaxUploads : toggleFileSelection(id)
  \/ selectAllFiles
  \/ deselectAllFiles
  \/ mergeSelectedFiles
  \/ \E bad \in SUBSET (1..MaxUploads), badCopy \in SUBSET (1..(MaxUploads * MaxPageCount)) :
       mergeSelectedSettle(bad, badCopy)

SpecStore == Init /\ [][NextStore]_vars

\* ---------------------------------------- PdfViewer: coordinate transform
\* Numbers are exact fractions <<numerator, denominator>>, denominator > 0.
Frac(n) == <<n, 1>>
FMul(a, b) == <<a[1] * b[1], a[2] * b[2]>>
FDiv(a, b) == IF b[1] > 0 THEN <<a[1] * b[2], a[2] * b[1]>>
                          ELSE <<-(a[1] * b[2]), -(a[2] * b[1])>>
FSub(a, b) == <<a[1] * b[2] - b[1] * a[2], a[2] * b[2]>>
FEq(a, b) == a[1] * b[2] = b[1] * a[2]

\* pointsToPx ignoring the scale
pointsToPxUnscaled(pt, scale) == FMul(FDiv(pt, Frac(72)), Frac(96))

\* const pointsToPx = (pt) => (pt / 72) * 96 * scale
pointsToPx(pt, scale) == FMul(FMul(FDiv(pt, Frac(72)), Frac(96)), scale)

\* const pxToPoints = (px) => (px / scale) * (72 / 96)
pxToPoints(px, scale) == FMul(FDiv(px, scale), FDiv(Frac(72), Frac(96)))

\* handlePageClick: xPoints = pxToPoints(x); yPoints = pxToPoints(rect.height - y)
ClickToPoints(x, y, height, scale) ==
  [xPoints |-> pxToPoints(Frac(x), scale),
   yPoints |-> pxToPoints(FSub(Frac(height), Frac(y)), scale)]

\* handleTextEdit / handleInlineEdit / the preview:
\*   xPx = pointsToPx(annotation.x); yPx = containerRect.height - pointsToPx(annotation.y)
PointsToScreen(pts, height, scale) ==
  [xPx |-> pointsToPx(pts.xPoints, scale),
   yPx |-> FSub(Frac(height), pointsToPx(pts.yPoints, scale))]

Scales == {<<n, d>> : n \in 1..MaxScale, d \in 1..MaxScale}

ClickArgs ==
  {a \in [x : 0..MaxPx, y : 0..MaxPx, height : 1..MaxPx, scale : Scales] : a.y <= a.height}

InitCoords ==
  /\ InitSession
  /\ call \in [op : {"click"}, args : ClickArgs, done : {FALSE}, result : {<<>>}]

\* a click at (x, y) of the page container is captured in points
callClick ==
  /\ call.op = "click"
  /\ ~call.done
  /\ call' = [call EXCEPT !.done = TRUE,
                !.result = ClickToPoints(call.args.x, call.args.y,
                                         call.args.height, call.args.scale)]
  /\ UNCHANGED <<sessionVars, exp, error, downloaded, storeVars>>

\* the captured position is shown again at the same scale and height
callDisplay ==
  /\ call.op = "click"
  /\ call.done
  /\ call' = [call EXCEPT !.op = "display",
                !.result = PointsToScreen(call.result, call.args.height, call.args.scale)]
  /\ UNCHANGED <<sessionVars, exp, error, downloaded, storeVars>>

NextCoords ==
  \/ callClick
  \/ callDisplay

SpecCoords == InitCoords /\ [][NextCoords]_vars

\* --------------------------------------- reordering the uploaded files
\* Array.prototype.splice: the position a start argument stands for
SpliceStart(len, start) ==
  IF start < 0 THEN Max2(len + start, 0) ELSE Min2(start, len)

\* what `{...undefined, order: index}` leaves of a file
Undefined == [id |-> NoId, pageCount |-> 0, status |-> "undefined", order |-> 0]

\* useEditorStore.reorderFiles: the uploadedFiles it sets
\*   const [removed] = files.splice(startIndex, 1)
\*   files.splice(endIndex, 0, removed)
\*   files.map((file, index) => ({...file, order: index}))
reorderFiles(files, startIndex, endIndex) ==
  LET s == SpliceStart(Len(files), startIndex)
      removed == IF s < Len(files) THEN files[s + 1] ELSE Undefined
      rest == IF s < Len(files) THEN RemoveAt(files, s + 1) ELSE files
      e == SpliceStart(Len(rest), endIndex)
      moved == InsertAt(rest, e + 1, removed)
  IN [i \in 1..Len(moved) |-> [moved[i] EXCEPT !.order = i - 1]]

\* PDFUploader.handleDragEnd: the uploadedFiles after the drag; over.id of
\* a null over throws before the store is called
handleDragEnd(files, active, over) ==
  IF active = over \/ over = NoTarget THEN files
  ELSE reorderFiles(files, FindIndexById(files, active), FindIndexById(files, over))

\* uploadedFiles with n files, ids 1..n, each file's order its index
FileList(n) ==
  [i \in 1..n |-> [id |-> i, pageCount |-> 1, status |-> "ready", order |-> i - 1]]

ReorderFilesArgs ==
  [files : {FileList(n) : n \in 0..MaxFiles},
   startIndex : (-1)..MaxFiles, endIndex : (-1)..MaxFiles]

\* a drag of file `active` dropped on file `over`; either may have left the list
DragArgs ==
  [files : {FileList(n) : n \in 1..MaxFiles},
   active : 1..MaxFiles, over : (1..MaxFiles) \cup {NoTarget}]

InitFiles ==
  /\ InitSession
  /\ \/ call \in [op : {"reorderFiles"}, args : ReorderFilesArgs,
                  done : {FALSE}, result : {<<>>}]
     \/ call \in [op : {"dragEnd"}, args : DragArgs, done : {FALSE}, result : {<<>>}]

callReorderFiles ==
  /\ call.op = "reorderFiles"
  /\ ~call.done
  /\ call' = [call EXCEPT !.done = TRUE,
                !.result = reorderFiles(call.args.files, call.args.startIndex,
                                        call.args.endIndex)]
  /\ UNCHANGED <<sessionVars, exp, error, downloaded, storeVars>>

callHandleDragEnd ==
  /\ call.op = "dragEnd"
  /\ ~call.done
  /\ call' = [call EXCEPT !.done = TRUE,
                !.result = handleDragEnd(call.args.files, call.args.active,
                                         call.args.over)]
  /\ UNCHANGED <<sessionVars, exp, error, downloaded, storeVars>>

NextFiles ==
  \/ callReorderFiles
  \/ callHandleDragEnd

SpecFiles == InitFiles /\ [][NextFiles]_vars

\* ------------------------------ re-editing an annotation in the viewer
\* EditorPage's textColor / textSize state, set from the toolbar
Colors == {"#111827", "#ff0000"}
Sizes == {12, 14}

\* a TextAnnotation as handleTextCommit builds it
EditAnnotations(k) ==
  [id : {k}, x : {1}, y : {1}, text : Texts, formats : SUBSET {"bold"},
   style : [color : Colors, fontSize : Sizes], pageNumber : 1..MaxPageCount]

EditLists ==
  UNION {{<<a>> : a \in EditAnnotations(1)},
         {<<a, b>> : a \in EditAnnotations(1), b \in EditAnnotations(2)}}

\* the annotation list, the preview clicked, the toolbar's colour and size
\* and the page displayed
EditArgs ==
  {a \in [list : EditLists, k : 1..MaxAnnotations, textColor : Colors,
          textSize : Sizes, pageNumber : 1..MaxPageCount] : a.k <= Len(a.list)}

InitEdit ==
  /\ InitSession
  /\ call \in [op : {"edit"}, args : EditArgs, done : {FALSE}, result : {<<>>}]

\* PdfViewer.handleTextEdit(annotation): the editor opens on the annotation
callTextEdit ==
  /\ call.op = "edit"
  /\ ~call.done
  /\ LET annotation == call.args.list[call.args.k] IN
     call' = [call EXCEPT !.done = TRUE,
                !.result = [id |-> annotation.id,
                            xPoints |-> annotation.x, yPoints |-> annotation.y,
                            text |-> annotation.text, formats |-> annotation.formats,
                            pageNumber |-> annotation.pageNumber]]
  /\ UNCHANGED <<sessionVars, exp, error, downloaded, storeVars>>

\* PdfViewer.handleTextCommit(text, formats) -> onCommitText -> addText, the
\* editor saving the text and formats it was opened with
callTextCommit ==
  /\ call.op = "edit"
  /\ call.done
  /\ LET ed == call.result
         annotation == [id |-> ed.id, x |-> ed.xPoints, y |-> ed.yPoints,
                        text |-> ed.text, formats |-> ed.formats,
                        style |-> [color |-> call.args.textColor,
                                   fontSize |-> call.args.textSize],
                        pageNumber |-> ed.pageNumber]
     IN call' = [call EXCEPT !.op = "commit",
                   !.result = addText(call.args.list, annotation)]
  /\ UNCHANGED <<sessionVars, exp, error, downloaded, storeVars>>

NextEdit ==
  \/ callTextEdit
  \/ callTextCommit

SpecEdit == InitEdit /\ [][NextEdit]_vars

\* ---------------------------------- direct calls of addTextAnnotations
TextFormats == {"bold", "italic", "underline"}

\* the k-th annotation of a list: any text, any target page (0 and
\* MaxPageCount + 1 are never pages), any formats, position and style
\* present or not
AnnArgs(k) ==
  [id : {k}, text : Texts, pageNumber : 0..(MaxPageCount + 1),
   formats : SUBSET TextFormats, hasPosition : BOOLEAN, hasStyle : BOOLEAN]

AnnListArgs ==
  UNION {{anns \in [1..n -> UNION {AnnArgs(k) : k \in 1..n}] :
            \A k \in 1..n : anns[k].id = k} : n \in 0..MaxDrawn}

InitAnnotate ==
  /\ InitSession
  /\ call \in [op : {"addTextAnnotations"},
               args : [bytes : {FileDoc(1, n) : n \in 1..MaxPageCount}, anns : AnnListArgs],
               done : {FALSE}, result : {<<>>}]

callAddTextAnnotations ==
  /\ call.op = "addTextAnnotations"
  /\ ~call.done
  /\ call' = [call EXCEPT !.done = TRUE,
                !.result = addTextAnnotations(call.args.bytes, call.args.anns)]
  /\ UNCHANGED <<sessionVars, exp, error, downloaded, storeVars>>

NextAnnotate == callAddTextAnnotations

SpecAnnotate == InitAnnotate /\ [][NextAnnotate]_vars

\* ======================================================================
\* Claims
\* ======================================================================
RECURSIVE SumLens(_, _)
SumLens(files, n) == IF n = 0 THEN 0 ELSE Len(files[n]) + SumLens(files, n - 1)

\* C1: a successful mergePdfs(files) returns the concatenation, in list
\* order, of every file's pages in their original order: the page count is
\* the sum of the inputs' page counts, page k of file i is output page
\* (pages of the files before i) + k, and for single-page inputs output
\* page i is the page of input i.
C1_MergeConcatenates ==
  (call.op = "mergePdfs" /\ call.done /\ call.result.ok) =>
    LET files == call.args.files
        out == call.result.pages
    IN /\ Len(out) = SumLens(files, Len(files))
       /\ \A i \in 1..Len(files) : \A k \in 1..Len(files[i]) :
            out[SumLens(files, i - 1) + k] = files[i][k]
       /\ (\A i \in 1..Len(files) : Len(files[i]) = 1) =>
            \A i \in 1..Len(files) : out[i] = files[i][1]

C1_Witness ==
  /\ call.op = "mergePdfs" /\ call.done /\ call.result.ok
  /\ Len(call.args.files) = 3
  /\ Len(call.args.files[1]) = 2
  /\ Len(call.result.pages) = 4

IsPermutation(order, n) ==
  Len(order) = n /\ \A v \in 0..(n - 1) : \E i \in 1..n : order[i] = v

\* C2: for a page order that is a permutation of 0..n-1, the exported
\* document has, at position i, the content of working-document page
\* pageOrder[i]; [0,1,2] after move(0, 2) is [1,2,0].
C2_ExportFollowsPageOrder ==
  /\ arrayMove(<<0, 1, 2>>, 0, 2) = <<1, 2, 0>>
  /\ (exp.pc = "done" /\ IsPermutation(exp.order, Len(exp.src))) =>
       /\ downloaded = Some(exp.bytes)
       /\ Len(exp.bytes) = Len(exp.src)
       /\ \A i \in 1..Len(exp.order) :
            exp.bytes[i].content = exp.src[exp.order[i] + 1].content

\* the scenario: content order A, B, C exported as B, C, A
C2_Witness ==
  /\ exp.pc = "done"
  /\ exp.order = <<1, 2, 0>>
  /\ Len(exp.src) = 3
  /\ exp.src[1].content # exp.src[2].content
  /\ exp.src[2].content # exp.src[3].content
  /\ <<exp.bytes[1].content, exp.bytes[2].content, exp.bytes[3].content>>
       = <<exp.src[2].content, exp.src[3].content, exp.src[1].content>>

\* after is before with the element at position from (1-based) moved to
\* position to, the elements between shifted one place towards from
MovedTo(before, after, from, to) ==
  /\ Len(after) = Len(before)
  /\ after[to] = before[from]
  /\ \A j \in 1..Len(before) :
       /\ (j < from /\ j < to) => after[j] = before[j]
       /\ (j > from /\ j > to) => after[j] = before[j]
       /\ (from <= j /\ j < to) => after[j] = before[j + 1]
       /\ (to < j /\ j <= from) => after[j] = before[j - 1]

\* C3: a drag from oldIndex to newIndex, both found in the order, moves the
\* single element: it ends at newIndex, the elements between shift by one,
\* all others stay.  (Only a drag turns a non-empty order into another
\* non-empty one.)
C3_ReorderIsSingleMove ==
  [][(pageOrder' # pageOrder /\ pageOrder # <<>> /\ pageOrder' # <<>>) =>
       \A active \in 0..(MaxPages - 1), over \in 0..(MaxPages - 1) :
         (/\ active # over
          /\ IndexOf(pageOrder, active) # -1
          /\ IndexOf(pageOrder, over) # -1
          /\ onDragEnd(active, over))
         => MovedTo(pageOrder, pageOrder',
                    IndexOf(pageOrder, active) + 1, IndexOf(pageOrder, over) + 1)]_vars

\* a three-page order only a move across two positions produces
C3_Witness == mergedPdf # None /\ pageOrder = <<1, 2, 0>>

PageCount(doc) == IF doc = None THEN 0 ELSE Len(doc[1])

\* C4: pageOrder is always a permutation of 0..length-1 and every entry
\* references a page of the current working document.
C4_PageOrderValid ==
  /\ IsPermutation(pageOrder, Len(pageOrder))
  /\ \A i \in 1..Len(pageOrder) : pageOrder[i] < PageCount(mergedPdf)

\* C5: a step that commits an annotation (or closes the inline editor)
\* leaves pageOrder, the working document, the source list and numPages
\* unchanged, and a document-load callback reporting the length of the
\* current order keeps that order.
C5_CommitKeepsPageOrder ==
  /\ [][(\/ (annotations' # annotations /\ annotations' # <<>>)
         \/ (activeEditor # None /\ activeEditor' = None /\ mergedPdf' # None))
        => UNCHANGED <<pageOrder, mergedPdf, loadedPdfs, numPages>>]_vars
  /\ [](OrderOnLoad(pageOrder, Len(pageOrder)) = pageOrder)

\* a custom order with an annotation committed
C5_Witness ==
  /\ Len(annotations) > 0
  /\ Len(pageOrder) = 3
  /\ \E i \in 1..Len(pageOrder) : pageOrder[i] # i - 1

NoDuplicateIds(list) ==
  \A i \in 1..Len(list), j \in 1..Len(list) : list[i].id = list[j].id => i = j

\* C6: a commit whose id is already in the list replaces that entry in
\* place, the length and every other entry unchanged; a commit with a new
\* id appends at the end; no two annotations ever share an id.
C6_CommitReplacesOrAppends ==
  /\ [][(annotations' # annotations /\ annotations' # <<>> /\ activeEditor # None) =>
        LET ed == activeEditor[1]
            n == Len(annotations)
        IN IF ed.id \in AnnIds(annotations)
           THEN /\ Len(annotations') = n
                /\ \A j \in 1..n :
                     /\ annotations'[j].id = annotations[j].id
                     /\ annotations[j].id # ed.id => annotations'[j] = annotations[j]
           ELSE /\ Len(annotations') = n + 1
                /\ SubSeq(annotations', 1, n) = annotations
                /\ annotations'[n + 1].id \notin AnnIds(annotations)
                /\ ed.id # NoId => annotations'[n + 1].id = ed.id]_vars
  /\ []NoDuplicateIds(annotations)

\* two annotations, the editor open on the first: its commit replaces in place
C6_Witness ==
  /\ Len(annotations) = 2
  /\ activeEditor # None
  /\ activeEditor[1].id = annotations[1].id

RanStage(stage) == \E i \in 1..Len(exp.log) : exp.log[i] = stage

ReorderedSrc ==
  IF RanStage("reorder")
  THEN [i \in 1..Len(exp.order) |-> exp.src[exp.order[i] + 1]]
  ELSE exp.src

StampsFor(anns, i) ==
  LET sel == SelectSeq(anns, LAMBDA a :
               a.pageNumber = i /\ a.text # "" /\ a.hasPosition /\ a.hasStyle)
  IN [j \in 1..Len(sel) |->
        [id |-> sel[j].id, text |-> sel[j].text,
         font |-> IF {"bold", "italic"} \subseteq sel[j].formats THEN "bold-italic"
                  ELSE IF "bold" \in sel[j].formats THEN "bold"
                  ELSE IF "italic" \in sel[j].formats THEN "italic"
                  ELSE "regular",
         underline |-> "underline" \in sel[j].formats]]

\* C8: the stages run in the order reorder, annotate, emit; the annotate
\* stage gets the already reordered document and runs iff the annotation
\* list is non-empty; with an empty list the document passes unchanged.
C8_StagesInOrder ==
  exp.pc # "idle" =>
    /\ exp.log \in {<<>>, <<"reorder">>, <<"annotate">>, <<"reorder", "annotate">>}
    /\ RanStage("annotate") => exp.anns # <<>>
    /\ exp.pc = "annotate" => exp.bytes = ReorderedSrc
    /\ exp.pc \in {"emit", "done"} =>
         /\ RanStage("annotate") <=> exp.anns # <<>>
         /\ Len(exp.bytes) = Len(ReorderedSrc)
         /\ \A i \in 1..Len(exp.bytes) :
              /\ exp.bytes[i].content = ReorderedSrc[i].content
              /\ exp.bytes[i].stamps = StampsFor(exp.anns, i)
         /\ exp.anns = <<>> => exp.bytes = ReorderedSrc

C8_Witness ==
  /\ exp.pc = "done"
  /\ exp.log = <<"reorder", "annotate">>
  /\ \E i \in 1..Len(exp.bytes) : exp.bytes[i].stamps # <<>>

\* C9: when a stage of an export throws, nothing is downloaded, an error is
\* shown, and no step of the export changes the source list, the working
\* document, the page order or the annotations.
C9_FailedExportLeavesNothing ==
  /\ [](exp.threw # "none" =>
          /\ exp.pc = "failed"
          /\ downloaded = None
          /\ error # Null)
  /\ [][(exp.pc # "idle" \/ exp'.pc # "idle") =>
          UNCHANGED <<loadedPdfs, mergedPdf, pageOrder, annotations>>]_vars

C9_Witness ==
  /\ exp.pc = "failed"
  /\ exp.threw = "annotate"
  /\ exp.log = <<"reorder", "annotate">>
  /\ error = ExportFailed

RECURSIVE AllPages(_)
AllPages(list) == IF list = <<>> THEN <<>> ELSE Bytes(Head(list)) \o AllPages(Tail(list))

\* C10: once no merge is in flight, mergedPdf is the merge of the current
\* loadedPdfs, and is absent when the list is empty.
C10_MergedIsMergeOfSources ==
  inflight = <<>> =>
    mergedPdf = (IF loadedPdfs = <<>> THEN None ELSE Some(AllPages(loadedPdfs)))

\* C11: whenever no merge is in flight and the viewer has loaded the working
\* document, numPages is the sum of pageCount over the current sources when
\* no custom order is applied, and the length of pageOrder otherwise.
C11_NumPagesMatchesSources ==
  (inflight = <<>> /\ mergedPdf # None /\ ~docPending) =>
    IF isSame(pageOrder)
    THEN numPages = SumPages(loadedPdfs)
    ELSE numPages = Len(pageOrder)

\* C12: mergePdfs fails atomically: when the load or the page copy of any
\* input fails the call throws, returns no bytes (not the document built
\* from the files merged so far), and the error names the failing file, the
\* first one in list order that fails; a call with no failing input succeeds.
C12_MergeFailsAtomically ==
  (call.op = "mergePdfs" /\ call.done) =>
    LET bad == call.args.bad
        r == call.result
    IN /\ r.ok <=> bad = {}
       /\ bad # {} =>
            /\ r.pages = <<>>
            /\ r.failed \in bad
            /\ \A j \in bad : r.failed <= j

\* the second of three files fails after the first has been copied
C12_Witness ==
  /\ call.op = "mergePdfs" /\ call.done
  /\ Len(call.args.files) = 3
  /\ call.args.bad = {2, 3}
  /\ ~call.result.ok
  /\ call.result.failed = 2

\* the files of a batch that parse, in batch order
OkFiles(files) == SelectSeq(files, LAMBDA f : f.ok)

\* C13: a load failure is isolated per source: when one file of a batch
\* given to loadFromFiles fails to parse, every other file of the batch is
\* still loaded and appended to the source list, in batch order.
C13_LoadFailureIsolated ==
  [][\A files \in Batches :
       (loadFromFiles(files) /\ \E i \in 1..Len(files) : ~files[i].ok) =>
         /\ Len(loadedPdfs') = Len(loadedPdfs) + Len(OkFiles(files))
         /\ \A k \in 1..Len(OkFiles(files)) :
              loadedPdfs'[Len(loadedPdfs) + k].pageCount = OkFiles(files)[k].pageCount]_vars

\* C14: a reorder request whose source or target is not an index of the
\* order (the dragged or the target id is not found, or the drop has no
\* target) is a no-op: the page order and all other state, the error
\* included, are unchanged.
C14_InvalidReorderIsNoOp ==
  [][(Idle /\ mergedPdf # None) =>
       LET found == {v \in 0..(MaxPages - 1) : IndexOf(pageOrder, v) \in 0..(Len(pageOrder) - 1)}
       IN /\ \A active \in 0..(MaxPages - 1) :
               onDragEnd(active, NoTarget) => UNCHANGED vars
          /\ \A active \in 0..(MaxPages - 1), over \in 0..(MaxPages - 1) :
               ((active \notin found \/ over \notin found) /\ onDragEnd(active, over))
               => UNCHANGED vars]_vars

\* a two-page custom order on show: page id 2 is not in it, so a drag of 2,
\* onto 2, or onto no target is such a request
C14_Witness ==
  /\ Idle
  /\ mergedPdf # None
  /\ pageOrder = <<1, 0>>
  /\ IndexOf(pageOrder, 2) = -1

\* C16: when the viewer finishes loading a working document and no merge is
\* in flight, the page order is the natural order [0, ..., n-1] for the
\* total page count n of the current source list (every change of the
\* source list changes that total), and numPages is n.
C16_NaturalOrderForNewCount ==
  [][(docPending /\ ~docPending' /\ mergedPdf' # None /\ inflight' = <<>>) =>
       /\ numPages' = SumPages(loadedPdfs')
       /\ pageOrder' = IdentityOrder(SumPages(loadedPdfs'))]_vars

\* the number of positions of s holding v
Occurrences(s, v) == Cardinality({i \in 1..Len(s) : s[i] = v})

SameElements(s, t) ==
  Len(s) = Len(t) /\ \A v \in 0..MaxElem : Occurrences(s, v) = Occurrences(t, v)

\* C15: for every sequence and every pair of valid indices, reorder(oldIndex,
\* newIndex) followed by reorder(newIndex, oldIndex) gives the original
\* sequence back, and the result of each reorder is a permutation of the
\* same elements.
C15_ReorderInverse ==
  /\ (call.op \in {"arrayMove", "arrayMoveBack"} /\ call.done) =>
       SameElements(call.result, call.args.array)
  /\ call.op = "arrayMoveBack" => call.result = call.args.array

\* the first of four moved to the third place and back
C15_Witness ==
  /\ call.op = "arrayMoveBack"
  /\ call.args.array = <<0, 1, 2, 1>>
  /\ call.args.from = 0
  /\ call.args.to = 2
  /\ call.result = <<0, 1, 2, 1>>

\* C17: in the editor store every page reference of pageOrder.pages names a
\* file that is in uploadedFiles and a page number within that file's page
\* count, no (fileId, pageNumber) pair occurs twice, and the globalIndex
\* values are 0..n-1 in sequence.
C17_PageRefsValid ==
  store.pageOrder # None =>
    LET pages == store.pageOrder[1].pages
        files == store.uploadedFiles
    IN /\ \A i \in 1..Len(pages) :
            \E j \in 1..Len(files) :
              /\ files[j].id = pages[i].fileId
              /\ pages[i].pageNumber \in 1..files[j].pageCount
       /\ \A i \in 1..Len(pages), k \in 1..Len(pages) :
            (pages[i].fileId = pages[k].fileId /\ pages[i].pageNumber = pages[k].pageNumber)
              => i = k
       /\ \A i \in 1..Len(pages) : pages[i].globalIndex = i - 1

C19_FontVariantByFormats ==
  /\ \A f \in SUBSET TextFormats :
       /\ FontVariant(f) \in {"regular", "bold", "italic", "bold-italic"}
       /\ FontVariant(f \cup {"underline"}) = FontVariant(f \ {"underline"})
  /\ (call.op = "addTextAnnotations" /\ call.done) =>
       \A k \in 1..Len(call.args.anns) :
         LET ann == call.args.anns[k]
             b == "bold" \in ann.formats
             i == "italic" \in ann.formats
         IN Stampable(call.args.bytes, ann) =>
              \E j \in 1..Len(call.result[ann.pageNumber].stamps) :
                LET st == call.result[ann.pageNumber].stamps[j] IN
                  /\ st.id = ann.id
                  /\ (b /\ i) => st.font = "bold-italic"
                  /\ (b /\ ~i) => st.font = "bold"
                  /\ (~b /\ i) => st.font = "italic"
                  /\ (~b /\ ~i) => st.font = "regular"

\* bold, italic and underline together, drawn in bold-italic
C19_Witness ==
  /\ call.op = "addTextAnnotations" /\ call.done
  /\ Len(call.args.anns) = 1
  /\ call.args.anns[1].formats = TextFormats
  /\ call.args.anns[1].pageNumber = 1
  /\ Len(call.result[1].stamps) = 1
  /\ call.result[1].stamps[1].font = "bold-italic"

\* C20: a bad annotation never aborts the batch: the call returns the
\* document with its pages unchanged in number and content, an annotation
\* whose page is out of range or that lacks position, text or style is
\* drawn nowhere, and every other annotation is drawn on its page, in
\* input order.
C20_BadAnnotationSkipped ==
  (call.op = "addTextAnnotations" /\ call.done) =>
    LET bytes == call.args.bytes
        anns == call.args.anns
        out == call.result
    IN /\ Len(out) = Len(bytes)
       /\ \A i \in 1..Len(out) :
            /\ out[i].content = bytes[i].content
            /\ out[i].stamps = StampsFor(anns, i)
       /\ \A k \in 1..Len(anns) :
            (\E i \in 1..Len(out) : \E j \in 1..Len(out[i].stamps) : out[i].stamps[j].id = k)
              <=> (/\ anns[k].pageNumber \in 1..Len(bytes)
                   /\ anns[k].hasPosition /\ anns[k].hasStyle /\ anns[k].text # "")

\* an annotation for a page past the end, followed by a good one that is drawn
C20_Witness ==
  /\ call.op = "addTextAnnotations" /\ call.done
  /\ Len(call.args.bytes) = MaxPageCount
  /\ Len(call.args.anns) = 2
  /\ call.args.anns[1].pageNumber = MaxPageCount + 1
  /\ call.args.anns[1].text # ""
  /\ call.args.anns[1].hasPosition /\ call.args.anns[1].hasStyle
  /\ call.result[1].stamps # <<>>
  /\ call.result[1].stamps[1].id = 2

\* C21: with the identity page order and an empty annotation list the
\* export runs neither the reorder nor the annotate stage, cannot fail, and
\* hands out exactly the working document.
C21_PlainExportIsWorkingDocument ==
  (exp.pc # "idle" /\ exp.order = IdentityOrder(Len(exp.src)) /\ exp.anns = <<>>) =>
    /\ exp.log = <<>>
    /\ exp.pc \in {"emit", "done"}
    /\ exp.bytes = exp.src
    /\ exp.pc = "done" => downloaded = Some(exp.src)

\* a three-page document of two sources exported untouched
C21_Witness ==
  /\ exp.pc = "done"
  /\ exp.order = <<0, 1, 2>>
  /\ exp.anns = <<>>
  /\ Len(loadedPdfs) = 2
  /\ downloaded = mergedPdf

\* C22: every annotation of the session's annotation list has a non-empty
\* text.
C22_AnnotationTextNonEmpty ==
  \A i \in 1..Len(annotations) : annotations[i].text # ""

\* C23: createReorderedPDF returns one page per entry of the page order, in
\* that order, the i-th being page pageNumber of file fileId of the i-th
\* entry; and a merged document with status 'ready' records as pageCount the
\* number of pages of its bytes.
C23_ReorderedPdfMatchesOrder ==
  /\ [][(/\ uploads.merging # None
         /\ uploads.merging[1].pages # None
         /\ uploads'.merging = None
         /\ store'.mergedPdf # None
         /\ store'.mergedPdf[1].status = "ready") =>
          LET pages == uploads.merging[1].pages[1]
              out == store'.mergedPdf[1].bytes
          IN /\ Len(out) = Len(pages)
             /\ \A i \in 1..Len(pages) :
                  out[i].content = <<pages[i].fileId, pages[i].pageNumber>>]_vars
  /\ []((store.mergedPdf # None /\ store.mergedPdf[1].status = "ready") =>
          store.mergedPdf[1].pageCount = Len(store.mergedPdf[1].bytes))

\* C24: in the document an export downloads, every drawn annotation sits on
\* the page carrying the content of the working-document page it was
\* committed on (its pageNumber), whatever the page order.
C24_AnnotationFollowsContent ==
  exp.pc = "done" =>
    \A i \in 1..Len(exp.bytes) : \A k \in 1..Len(exp.bytes[i].stamps) :
      \A a \in 1..Len(exp.anns) :
        exp.anns[a].id = exp.bytes[i].stamps[k].id =>
          /\ exp.anns[a].pageNumber \in 1..Len(exp.src)
          /\ exp.bytes[i].content = exp.src[exp.anns[a].pageNumber].content

\* C25: every annotation of the list targets a page of the current working
\* document, whatever the interleaving of source changes and commits.
C25_AnnotationsTargetExistingPages ==
  \A i \in 1..Len(annotations) : annotations[i].pageNumber \in 1..PageCount(mergedPdf)

\* C28: whenever a document is loaded (numPages > 0), the current page lies
\* in 1..numPages.
C28_PageNumberInRange ==
  numPages > 0 => pageNumber \in 1..numPages

\* C29: opening an existing annotation and committing it with the text and
\* formats it had leaves the annotation list as it was, whatever the
\* toolbar's colour and size and whichever page is displayed.
C29_RecommitIsIdentity ==
  call.op = "commit" => call.result = call.args.list

\* the selected files with status 'ready', in uploadedFiles order
SelectedReady ==
  SelectSeq(store.uploadedFiles, LAMBDA f :
    f.id \in Range(store.selectedFiles) /\ f.status = "ready")

\* C26: mergeSelectedFiles merges exactly the selected ready files, in
\* uploadedFiles order: the merge it starts is over those files, and the
\* bytes of a 'ready' result hold pages of those files only.
C26_MergesExactlySelectedReady ==
  /\ [][(uploads.merging = None /\ uploads'.merging # None) =>
          /\ uploads'.merging[1].files = SelectedReady
          /\ store'.mergedPdf # None
          /\ store'.mergedPdf[1].files =
               [i \in 1..Len(SelectedReady) |-> SelectedReady[i].id]]_vars
  /\ [][(/\ uploads.merging # None
         /\ uploads'.merging = None
         /\ store'.mergedPdf # None
         /\ store'.mergedPdf[1].status = "ready") =>
          \A i \in 1..Len(store'.mergedPdf[1].bytes) :
            store'.mergedPdf[1].bytes[i].content[1] \in Range(store'.mergedPdf[1].files)]_vars

\* the same files, none lost, duplicated or undefined, each with its index
\* as order
SameFilesReindexed(before, after) ==
  /\ Len(after) = Len(before)
  /\ \A i \in 1..Len(before) :
       \E j \in 1..Len(after) : after[j] = [before[i] EXCEPT !.order = j - 1]
  /\ \A i, j \in 1..Len(after) : after[i].id = after[j].id => i = j

\* C27: reorderFiles leaves uploadedFiles a permutation of the previous list
\* with every order field equal to the index, and leaves the list unchanged
\* when an index is outside [0, length), as when a drag's source or target
\* is not found.
C27_ReorderFilesPermutes ==
  /\ (call.op = "reorderFiles" /\ call.done) =>
       /\ SameFilesReindexed(call.args.files, call.result)
       /\ (\/ call.args.startIndex \notin 0..(Len(call.args.files) - 1)
           \/ call.args.endIndex \notin 0..(Len(call.args.files) - 1)) =>
            call.result = call.args.files
  /\ (call.op = "dragEnd" /\ call.done) =>
       /\ SameFilesReindexed(call.args.files, call.result)
       /\ (\/ FindIndexById(call.args.files, call.args.active) = -1
           \/ call.args.over = NoTarget
           \/ FindIndexById(call.args.files, call.args.over) = -1) =>
            call.result = call.args.files

====
